---- MODULE Spec2Model ----
(***************************************************************************)
(* Model of scripts/yfinance_api.py: the command-line quote fetcher.       *)
(*                                                                         *)
(* Encoding of Python values:                                              *)
(*   - a str is the sequence of its Unicode code points, so that upper(),  *)
(*     strip(), concatenation and the `in` substring test are computed:    *)
(*     <<65, 65, 80, 76>> is "AAPL";                                       *)
(*   - an optional value is a sequence of length <= 1: <<>> is None and    *)
(*     <<v>> is the value v;                                               *)
(*   - a dict is a function from its keys (a record when the keys are      *)
(*     fixed).                                                             *)
(* The diagnostics printed to sys.stderr are not part of the state; every  *)
(* write to sys.stdout is.                                                 *)
(***************************************************************************)
EXTENDS Integers, Sequences, FiniteSets, TLC

VARIABLES
    argv,               \* sys.argv, argv[1] being the program name
    YFINANCE_AVAILABLE, \* the load-time availability flag
    pc,                 \* position of the process
    caller,             \* the call site the running get_stock_data returns to
    stdout,             \* the objects printed to standard output, in order
    exit_status,        \* None while running, <<status>> once the process ended
    search_term,        \* search_stocks: the normalised query
    results,            \* search_stocks: results
    suffix_idx,         \* search_stocks: index of the suffix being tried
    popular_queue,      \* search_stocks: matching_symbols[:2], and the index in it
    popular_idx,
    fetch_calls,        \* the get_stock_data calls of search_stocks, in order
    fetch_rets,         \* and what each returned
    test_data,          \* main: what the test command's fetch returned
    fargs,              \* get_stock_data: the arguments of the running call
    attempt,            \* get_stock_data: loop variable
    retry_delay,        \* get_stock_data: the (mutated) retry_delay
    ret,                \* get_stock_data: the returned value
    events,             \* the sleeps and provider calls of the running get_stock_data
    provider_calls,     \* number of yf.Ticker(...).info lookups of the process
    sleep_calls         \* number of time.sleep calls of the process

vars == <<argv, YFINANCE_AVAILABLE, pc, caller, stdout, exit_status, search_term,
          results, suffix_idx, popular_queue, popular_idx, fetch_calls, fetch_rets,
          test_data, fargs, attempt, retry_delay, ret, events, provider_calls,
          sleep_calls>>

----------------------------------------------------------------------------
(* Bounds of the model *)

\* longest query drawn over QueryAlphabet
MaxQueryLen == 5
\* largest max_retries a direct get_stock_data call is given
MaxRetriesBound == 3
\* largest retry_delay a direct get_stock_data call is given
MaxDelay == 2

----------------------------------------------------------------------------
(* Python values *)

None == <<>>

Min(S) == CHOOSE x \in S : \A y \in S : x <= y

Max(S) == CHOOSE x \in S : \A y \in S : y <= x

\* dict.get(key, default)
Get(d, key, default) == IF key \in DOMAIN d THEN d[key] ELSE default

\* truth value of an optional number: None and 0 are false
TruthyNum(v) == v # None /\ v[1] # 0

\* truth value of an optional dict: None and {} are false
TruthyDict(v) == v # None /\ DOMAIN v[1] # {}

\* HasKey if a missing key did not raise (sensitivity of C10)
HasKeyAlways(d, key) == TRUE

\* whether d[key] can be read; d[key] raises KeyError otherwise
HasKey(d, key) == key \in DOMAIN d

\* The simple case mappings of str.upper() (CPython 3.11, Unicode 14), as runs
\* <<first, last, step, delta>>: the characters first, first + step, ..., last are
\* mapped to themselves plus delta. <<97, 122, 1, -32>> is a..z.
UpperRuns ==
    <<
       <<97, 122, 1, -32>>, <<181, 181, 1, 743>>, <<224, 246, 1, -32>>,
       <<248, 254, 1, -32>>, <<255, 255, 1, 121>>, <<257, 303, 2, -1>>,
       <<305, 305, 1, -232>>, <<307, 311, 2, -1>>, <<314, 328, 2, -1>>,
       <<331, 375, 2, -1>>, <<378, 382, 2, -1>>, <<383, 383, 1, -300>>,
       <<384, 384, 1, 195>>, <<387, 389, 2, -1>>, <<392, 392, 1, -1>>,
       <<396, 396, 1, -1>>, <<402, 402, 1, -1>>, <<405, 405, 1, 97>>,
       <<409, 409, 1, -1>>, <<410, 410, 1, 163>>, <<414, 414, 1, 130>>,
       <<417, 421, 2, -1>>, <<424, 424, 1, -1>>, <<429, 429, 1, -1>>,
       <<432, 432, 1, -1>>, <<436, 438, 2, -1>>, <<441, 441, 1, -1>>,
       <<445, 445, 1, -1>>, <<447, 447, 1, 56>>, <<453, 453, 1, -1>>,
       <<454, 454, 1, -2>>, <<456, 456, 1, -1>>, <<457, 457, 1, -2>>,
       <<459, 459, 1, -1>>, <<460, 460, 1, -2>>, <<462, 476, 2, -1>>,
       <<477, 477, 1, -79>>, <<479, 495, 2, -1>>, <<498, 498, 1, -1>>,
       <<499, 499, 1, -2>>, <<501, 501, 1, -1>>, <<505, 543, 2, -1>>,
       <<547, 563, 2, -1>>, <<572, 572, 1, -1>>, <<575, 576, 1, 10815>>,
       <<578, 578, 1, -1>>, <<583, 591, 2, -1>>, <<592, 592, 1, 10783>>,
       <<593, 593, 1, 10780>>, <<594, 594, 1, 10782>>, <<595, 595, 1, -210>>,
       <<596, 596, 1, -206>>, <<598, 599, 1, -205>>, <<601, 601, 1, -202>>,
       <<603, 603, 1, -203>>, <<604, 604, 1, 42319>>, <<608, 608, 1, -205>>,
       <<609, 609, 1, 42315>>, <<611, 611, 1, -207>>, <<613, 613, 1, 42280>>,
       <<614, 614, 1, 42308>>, <<616, 616, 1, -209>>, <<617, 617, 1, -211>>,
       <<618, 618, 1, 42308>>, <<619, 619, 1, 10743>>, <<620, 620, 1, 42305>>,
       <<623, 623, 1, -211>>, <<625, 625, 1, 10749>>, <<626, 626, 1, -213>>,
       <<629, 629, 1, -214>>, <<637, 637, 1, 10727>>, <<640, 640, 1, -218>>,
       <<642, 642, 1, 42307>>, <<643, 643, 1, -218>>, <<647, 647, 1, 42282>>,
       <<648, 648, 1, -218>>, <<649, 649, 1, -69>>, <<650, 651, 1, -217>>,
       <<652, 652, 1, -71>>, <<658, 658, 1, -219>>, <<669, 669, 1, 42261>>,
       <<670, 670, 1, 42258>>, <<837, 837, 1, 84>>, <<881, 883, 2, -1>>,
       <<887, 887, 1, -1>>, <<891, 893, 1, 130>>, <<940, 940, 1, -38>>,
       <<941, 943, 1, -37>>, <<945, 961, 1, -32>>, <<962, 962, 1, -31>>,
       <<963, 971, 1, -32>>, <<972, 972, 1, -64>>, <<973, 974, 1, -63>>,
       <<976, 976, 1, -62>>, <<977, 977, 1, -57>>, <<981, 981, 1, -47>>,
       <<982, 982, 1, -54>>, <<983, 983, 1, -8>>, <<985, 1007, 2, -1>>,
       <<1008, 1008, 1, -86>>, <<1009, 1009, 1, -80>>, <<1010, 1010, 1, 7>>,
       <<1011, 1011, 1, -116>>, <<1013, 1013, 1, -96>>, <<1016, 1016, 1, -1>>,
       <<1019, 1019, 1, -1>>, <<1072, 1103, 1, -32>>, <<1104, 1119, 1, -80>>,
       <<1121, 1153, 2, -1>>, <<1163, 1215, 2, -1>>, <<1218, 1230, 2, -1>>,
       <<1231, 1231, 1, -15>>, <<1233, 1327, 2, -1>>, <<1377, 1414, 1, -48>>,
       <<4304, 4346, 1, 3008>>, <<4349, 4351, 1, 3008>>, <<5112, 5117, 1, -8>>,
       <<7296, 7296, 1, -6254>>, <<7297, 7297, 1, -6253>>, <<7298, 7298, 1, -6244>>,
       <<7299, 7300, 1, -6242>>, <<7301, 7301, 1, -6243>>, <<7302, 7302, 1, -6236>>,
       <<7303, 7303, 1, -6181>>, <<7304, 7304, 1, 35266>>, <<7545, 7545, 1, 35332>>,
       <<7549, 7549, 1, 3814>>, <<7566, 7566, 1, 35384>>, <<7681, 7829, 2, -1>>,
       <<7835, 7835, 1, -59>>, <<7841, 7935, 2, -1>>, <<7936, 7943, 1, 8>>,
       <<7952, 7957, 1, 8>>, <<7968, 7975, 1, 8>>, <<7984, 7991, 1, 8>>,
       <<8000, 8005, 1, 8>>, <<8017, 8023, 2, 8>>, <<8032, 8039, 1, 8>>,
       <<8048, 8049, 1, 74>>, <<8050, 8053, 1, 86>>, <<8054, 8055, 1, 100>>,
       <<8056, 8057, 1, 128>>, <<8058, 8059, 1, 112>>, <<8060, 8061, 1, 126>>,
       <<8112, 8113, 1, 8>>, <<8126, 8126, 1, -7205>>, <<8144, 8145, 1, 8>>,
       <<8160, 8161, 1, 8>>, <<8165, 8165, 1, 7>>, <<8526, 8526, 1, -28>>,
       <<8560, 8575, 1, -16>>, <<8580, 8580, 1, -1>>, <<9424, 9449, 1, -26>>,
       <<11312, 11359, 1, -48>>, <<11361, 11361, 1, -1>>, <<11365, 11365, 1, -10795>>,
       <<11366, 11366, 1, -10792>>, <<11368, 11372, 2, -1>>, <<11379, 11379, 1, -1>>,
       <<11382, 11382, 1, -1>>, <<11393, 11491, 2, -1>>, <<11500, 11502, 2, -1>>,
       <<11507, 11507, 1, -1>>, <<11520, 11557, 1, -7264>>, <<11559, 11559, 1, -7264>>,
       <<11565, 11565, 1, -7264>>, <<42561, 42605, 2, -1>>, <<42625, 42651, 2, -1>>,
       <<42787, 42799, 2, -1>>, <<42803, 42863, 2, -1>>, <<42874, 42876, 2, -1>>,
       <<42879, 42887, 2, -1>>, <<42892, 42892, 1, -1>>, <<42897, 42899, 2, -1>>,
       <<42900, 42900, 1, 48>>, <<42903, 42921, 2, -1>>, <<42933, 42947, 2, -1>>,
       <<42952, 42954, 2, -1>>, <<42961, 42961, 1, -1>>, <<42967, 42969, 2, -1>>,
       <<42998, 42998, 1, -1>>, <<43859, 43859, 1, -928>>, <<43888, 43967, 1, -38864>>,
       <<65345, 65370, 1, -32>>, <<66600, 66639, 1, -40>>, <<66776, 66811, 1, -40>>,
       <<66967, 67003, 2, -39>>, <<66968, 66976, 2, -39>>, <<66980, 66992, 2, -39>>,
       <<66996, 67000, 2, -39>>, <<67004, 67004, 1, -39>>, <<68800, 68850, 1, -64>>,
       <<71872, 71903, 1, -32>>, <<93792, 93823, 1, -32>>, <<125218, 125251, 1, -34>>
    >>

\* The characters whose upper case is more than one character, with that upper
\* case. <<223, <<83, 83>>>> maps the sharp s to SS.
UpperSpecial ==
    <<
       <<223, <<83, 83>>>>, <<329, <<700, 78>>>>, <<496, <<74, 780>>>>,
       <<912, <<921, 776, 769>>>>, <<944, <<933, 776, 769>>>>,
       <<1415, <<1333, 1362>>>>, <<7830, <<72, 817>>>>, <<7831, <<84, 776>>>>,
       <<7832, <<87, 778>>>>, <<7833, <<89, 778>>>>, <<7834, <<65, 702>>>>,
       <<8016, <<933, 787>>>>, <<8018, <<933, 787, 768>>>>,
       <<8020, <<933, 787, 769>>>>, <<8022, <<933, 787, 834>>>>,
       <<8064, <<7944, 921>>>>, <<8065, <<7945, 921>>>>, <<8066, <<7946, 921>>>>,
       <<8067, <<7947, 921>>>>, <<8068, <<7948, 921>>>>, <<8069, <<7949, 921>>>>,
       <<8070, <<7950, 921>>>>, <<8071, <<7951, 921>>>>, <<8072, <<7944, 921>>>>,
       <<8073, <<7945, 921>>>>, <<8074, <<7946, 921>>>>, <<8075, <<7947, 921>>>>,
       <<8076, <<7948, 921>>>>, <<8077, <<7949, 921>>>>, <<8078, <<7950, 921>>>>,
       <<8079, <<7951, 921>>>>, <<8080, <<7976, 921>>>>, <<8081, <<7977, 921>>>>,
       <<8082, <<7978, 921>>>>, <<8083, <<7979, 921>>>>, <<8084, <<7980, 921>>>>,
       <<8085, <<7981, 921>>>>, <<8086, <<7982, 921>>>>, <<8087, <<7983, 921>>>>,
       <<8088, <<7976, 921>>>>, <<8089, <<7977, 921>>>>, <<8090, <<7978, 921>>>>,
       <<8091, <<7979, 921>>>>, <<8092, <<7980, 921>>>>, <<8093, <<7981, 921>>>>,
       <<8094, <<7982, 921>>>>, <<8095, <<7983, 921>>>>, <<8096, <<8040, 921>>>>,
       <<8097, <<8041, 921>>>>, <<8098, <<8042, 921>>>>, <<8099, <<8043, 921>>>>,
       <<8100, <<8044, 921>>>>, <<8101, <<8045, 921>>>>, <<8102, <<8046, 921>>>>,
       <<8103, <<8047, 921>>>>, <<8104, <<8040, 921>>>>, <<8105, <<8041, 921>>>>,
       <<8106, <<8042, 921>>>>, <<8107, <<8043, 921>>>>, <<8108, <<8044, 921>>>>,
       <<8109, <<8045, 921>>>>, <<8110, <<8046, 921>>>>, <<8111, <<8047, 921>>>>,
       <<8114, <<8122, 921>>>>, <<8115, <<913, 921>>>>, <<8116, <<902, 921>>>>,
       <<8118, <<913, 834>>>>, <<8119, <<913, 834, 921>>>>, <<8124, <<913, 921>>>>,
       <<8130, <<8138, 921>>>>, <<8131, <<919, 921>>>>, <<8132, <<905, 921>>>>,
       <<8134, <<919, 834>>>>, <<8135, <<919, 834, 921>>>>, <<8140, <<919, 921>>>>,
       <<8146, <<921, 776, 768>>>>, <<8147, <<921, 776, 769>>>>,
       <<8150, <<921, 834>>>>, <<8151, <<921, 776, 834>>>>,
       <<8162, <<933, 776, 768>>>>, <<8163, <<933, 776, 769>>>>,
       <<8164, <<929, 787>>>>, <<8166, <<933, 834>>>>, <<8167, <<933, 776, 834>>>>,
       <<8178, <<8186, 921>>>>, <<8179, <<937, 921>>>>, <<8180, <<911, 921>>>>,
       <<8182, <<937, 834>>>>, <<8183, <<937, 834, 921>>>>, <<8188, <<937, 921>>>>,
       <<64256, <<70, 70>>>>, <<64257, <<70, 73>>>>, <<64258, <<70, 76>>>>,
       <<64259, <<70, 70, 73>>>>, <<64260, <<70, 70, 76>>>>, <<64261, <<83, 84>>>>,
       <<64262, <<83, 84>>>>, <<64275, <<1348, 1350>>>>, <<64276, <<1348, 1333>>>>,
       <<64277, <<1348, 1339>>>>, <<64278, <<1358, 1350>>>>, <<64279, <<1348, 1341>>>>
    >>

InRun(c, run) == run[1] <= c /\ c <= run[2] /\ (c - run[1]) % run[3] = 0

\* the characters of the runs, and those with a multi-character upper case
SimpleCased ==
    UNION {{UpperRuns[k][1] + i * UpperRuns[k][3] :
              i \in 0..((UpperRuns[k][2] - UpperRuns[k][1]) \div UpperRuns[k][3])} :
           k \in DOMAIN UpperRuns}

SpecialCased == {UpperSpecial[k][1] : k \in DOMAIN UpperSpecial}

\* the upper case of every character that has one other than itself
UpperTable ==
    [c \in SimpleCased \cup SpecialCased |->
       IF c \in SpecialCased
       THEN UpperSpecial[CHOOSE k \in DOMAIN UpperSpecial : UpperSpecial[k][1] = c][2]
       ELSE <<c + UpperRuns[CHOOSE k \in DOMAIN UpperRuns : InRun(c, UpperRuns[k])][4]>>]

\* the upper case of one character, a string of one to three characters
UpperChar(c) == IF c \in DOMAIN UpperTable THEN UpperTable[c] ELSE <<c>>

\* str.upper(): the upper cases of the characters, concatenated
RECURSIVE Upper(_)
Upper(s) == IF s = <<>> THEN <<>> ELSE UpperChar(Head(s)) \o Upper(Tail(s))

\* the characters str.strip() removes, those of str.isspace(): \t \n \v \f \r,
\* U+001C..U+001F, the space, U+0085, U+00A0 and the other Unicode spaces
Whitespace ==
    {9, 10, 11, 12, 13, 28, 29, 30, 31, 32, 133, 160, 5760}
    \cup (8192..8202) \cup {8232, 8233, 8239, 8287, 12288}

\* str.strip()
Strip(s) ==
    LET keep == {i \in 1..Len(s) : s[i] \notin Whitespace}
    IN  IF keep = {} THEN <<>> ELSE SubSeq(s, Min(keep), Max(keep))

\* needle in hay
IsSubstring(needle, hay) ==
    \E i \in 0..(Len(hay) - Len(needle)) : SubSeq(hay, i + 1, i + Len(needle)) = needle

\* seq[:n]
Take(seq, n) == SubSeq(seq, 1, IF Len(seq) < n THEN Len(seq) ELSE n)

----------------------------------------------------------------------------
(* The provider: what yf.Ticker(symbol).info can do *)

PriceKey == "regularMarketPrice"

CloseKey == "regularMarketPreviousClose"

EmptyInfo == [k \in {} |-> None]

InfoOnly(key, v) == [k \in {key} |-> v]

InfoBoth(p, c) == [k \in {PriceKey, CloseKey} |-> IF k = PriceKey THEN p ELSE c]

\* the info dicts the provider returns here: empty, without a price, with a None or
\* zero price, and with a price (negative or positive) and a previous close that is
\* absent, None, zero or positive
Infos ==
    {EmptyInfo, InfoOnly(CloseKey, <<4>>), InfoOnly(PriceKey, None),
     InfoOnly(PriceKey, <<0>>), InfoOnly(PriceKey, <<-3>>), InfoBoth(<<0>>, <<4>>),
     InfoBoth(<<5>>, None), InfoBoth(<<5>>, <<0>>), InfoBoth(<<5>>, <<4>>)}

\* "HTTP Error 429: "
MsgHttp429 == <<72, 84, 84, 80, 32, 69, 114, 114, 111, 114, 32, 52, 50, 57, 58, 32>>

\* "Too Many Requests"
MsgTooMany == <<84, 111, 111, 32, 77, 97, 110, 121, 32, 82, 101, 113, 117, 101, 115, 116, 115>>

\* "Too many requests"
MsgLowerCase == <<84, 111, 111, 32, 109, 97, 110, 121, 32, 114, 101, 113, 117, 101, 115, 116, 115>>

\* "42 9"
MsgSplit == <<52, 50, 32, 57>>

\* the messages that carry a rate-limit signature, and those that do not
RateLimitMessages == {MsgHttp429, MsgTooMany}

OtherMessages == {MsgLowerCase, MsgSplit}

Messages == RateLimitMessages \cup OtherMessages

\* str(e) of the TypeError of `current_price - None`:
\* "unsupported operand type(s) for -: 'int' and 'NoneType'"
TypeErrorMsg ==
    <<117, 110, 115, 117, 112, 112, 111, 114, 116, 101, 100, 32, 111, 112, 101, 114,
      97, 110, 100, 32, 116, 121, 112, 101, 40, 115, 41, 32, 102, 111, 114, 32,
      45, 58, 32, 39, 105, 110, 116, 39, 32, 97, 110, 100, 32, 39, 78, 111,
      110, 101, 84, 121, 112, 101, 39>>

----------------------------------------------------------------------------
(* get_stock_data *)

DefaultMaxRetries == 2

DefaultRetryDelay == 1

\* the value returned when the library could not be imported
Marker == [success |-> FALSE, error |-> "yfinance module not available", fallback |-> TRUE]

\* LibraryMissing without the availability test (sensitivity of C5)
LibraryMissingNever == FALSE

\* the test that short-circuits get_stock_data
LibraryMissing == ~YFINANCE_AVAILABLE

\* NoValidData without the test for a zero price (sensitivity of C4)
NoValidDataLax(info) == DOMAIN info = {} \/ Get(info, PriceKey, None) = None

\* the validity check of the fetched info
NoValidData(info) == DOMAIN info = {} \/ ~TruthyNum(Get(info, PriceKey, None))

\* the stock_data dict; changePercent is the rational num/den. The remaining fields
\* of the dict are info.get copies with constant defaults and are left out.
StockData(symbol, current_price, previous_close) ==
    LET change == current_price - previous_close
    IN  [symbol        |-> Upper(symbol),
         price         |-> current_price,
         change        |-> change,
         changePercent |-> IF previous_close > 0
                           THEN [num |-> change * 100, den |-> previous_close]
                           ELSE [num |-> 0, den |-> 1]]

\* the body of the try block once info is fetched: it returns a value or raises
TryBody(symbol, info) ==
    IF NoValidData(info)
    THEN [type |-> "return", value |-> None]
    ELSE LET current_price  == Get(info, PriceKey, <<0>>)
             previous_close == Get(info, CloseKey, current_price)
         IN  IF previous_close = None
             THEN [type |-> "raise", msg |-> TypeErrorMsg]
             ELSE [type  |-> "return",
                   value |-> <<StockData(symbol, current_price[1], previous_close[1])>>]

\* IsRateLimit if every exception were retried (sensitivity of C2)
IsRateLimitAny(error_msg) == TRUE

\* the rate-limit test of the except block:
\* "429" in error_msg or "Too Many Requests" in error_msg
IsRateLimit(error_msg) ==
    \/ IsSubstring(<<52, 50, 57>>, error_msg)
    \/ IsSubstring(<<84, 111, 111, 32, 77, 97, 110, 121, 32,
                     82, 101, 113, 117, 101, 115, 116, 115>>, error_msg)

\* Backoff without the doubling (sensitivity of C1)
BackoffNone(delay) == delay

\* retry_delay *= 2
Backoff(delay) == delay * 2

\* ProviderWrite without redirect_stdout (sensitivity of C3)
ProviderLeak(out, chatter) == IF chatter THEN Append(out, "chatter") ELSE out

\* what the library prints while it is called goes to null_stream, not to stdout
ProviderWrite(out, chatter) == out

\* print(json.dumps(obj))
WriteStdout(out, obj) == Append(out, obj)

\* the events of one loop iteration up to and including the provider call
AttemptEvents(outcome) ==
    (IF attempt > 0 THEN <<[kind |-> "sleep", delay |-> retry_delay]>> ELSE <<>>)
    \o <<[kind |-> "call", symbol |-> fargs.symbol, outcome |-> outcome]>>

\* the except block
HandleException(error_msg) ==
    IF IsRateLimit(error_msg) /\ attempt < fargs.max_retries
    THEN /\ retry_delay' = Backoff(retry_delay)
         /\ attempt' = attempt + 1
         /\ pc' = "fetch"
         /\ ret' = ret
    ELSE /\ ret' = None
         /\ pc' = "returned"
         /\ UNCHANGED <<attempt, retry_delay>>

\* a call of get_stock_data(symbol, max_retries, retry_delay) from call site who
CallFetch(symbol, max_retries, delay, who) ==
    /\ fargs' = [symbol |-> symbol, max_retries |-> max_retries, retry_delay |-> delay]
    /\ caller' = who
    /\ pc' = "call"
    /\ attempt' = 0
    /\ retry_delay' = delay
    /\ ret' = None
    /\ events' = <<>>

mainVars == <<argv, YFINANCE_AVAILABLE, stdout, exit_status, test_data>>

searchVars == <<search_term, results, suffix_idx, popular_queue, popular_idx,
                fetch_calls, fetch_rets>>

fetchVars == <<fargs, caller, attempt, retry_delay, ret, events>>

counters == <<provider_calls, sleep_calls>>

\* entry of get_stock_data: the availability test and the loop header
GsdEntry ==
    /\ pc = "call"
    /\ IF LibraryMissing
       THEN ret' = <<Marker>> /\ pc' = "returned"
       ELSE IF fargs.max_retries + 1 <= 0
            THEN ret' = None /\ pc' = "returned"
            ELSE ret' = ret /\ pc' = "fetch"
    /\ UNCHANGED <<fargs, caller, attempt, retry_delay, events>>
    /\ UNCHANGED <<mainVars, searchVars, counters>>

\* one loop iteration in which ticker.info returns
GsdAttemptInfo ==
    /\ pc = "fetch"
    /\ \E info \in Infos, chatter \in BOOLEAN :
         LET body == TryBody(fargs.symbol, info)
         IN  /\ events' = events \o AttemptEvents([type |-> "info", info |-> info])
             /\ stdout' = ProviderWrite(stdout, chatter)
             /\ IF body.type = "return"
                THEN /\ ret' = body.value
                     /\ pc' = "returned"
                     /\ UNCHANGED <<attempt, retry_delay>>
                ELSE HandleException(body.msg)
    /\ sleep_calls' = sleep_calls + (IF attempt > 0 THEN 1 ELSE 0)
    /\ provider_calls' = provider_calls + 1
    /\ UNCHANGED <<fargs, caller, argv, YFINANCE_AVAILABLE, exit_status, test_data>>
    /\ UNCHANGED searchVars

\* one loop iteration in which yf.Ticker(symbol).info raises
GsdAttemptRaise ==
    /\ pc = "fetch"
    /\ \E msg \in Messages, chatter \in BOOLEAN :
         /\ events' = events \o AttemptEvents([type |-> "raise", msg |-> msg])
         /\ stdout' = ProviderWrite(stdout, chatter)
         /\ HandleException(msg)
    /\ sleep_calls' = sleep_calls + (IF attempt > 0 THEN 1 ELSE 0)
    /\ provider_calls' = provider_calls + 1
    /\ UNCHANGED <<fargs, caller, argv, YFINANCE_AVAILABLE, exit_status, test_data>>
    /\ UNCHANGED searchVars

----------------------------------------------------------------------------
(* search_stocks *)

\* CommonSuffixes in another order, .V .TO .AX (sensitivity of C7)
CommonSuffixesSwapped == << <<46, 86>>, <<46, 84, 79>>, <<46, 65, 88>> >>

\* ['.TO', '.V', '.AX']
CommonSuffixes == << <<46, 84, 79>>, <<46, 86>>, <<46, 65, 88>> >>

\* ['AAPL', 'MSFT', 'GOOGL', 'TSLA', 'NVDA', 'AMZN', 'META', 'NFLX']
PopularSymbols ==
    << <<65, 65, 80, 76>>, <<77, 83, 70, 84>>, <<71, 79, 79, 71, 76>>,
       <<84, 83, 76, 65>>, <<78, 86, 68, 65>>, <<65, 77, 90, 78>>,
       <<77, 69, 84, 65>>, <<78, 70, 76, 88>> >>

\* the longest search term the popular symbols are tried for
PopularMaxTermLen == 4

\* PopularLimit raised to 4 (sensitivity of C8)
PopularLimitRaised == 2 + 2

\* "Limit to only 2 results": the slice matching_symbols[:2] and the stop at
\* len(results) >= 2
PopularLimit == 2

\* query.upper().strip()
Normalize(query) == Strip(Upper(query))

IsMatching(s, term) == IsSubstring(term, s) \/ IsSubstring(s, term)

\* [s for s in popular_symbols if search_term in s or s in search_term]
MatchingSymbols(term) == SelectSeq(PopularSymbols, LAMBDA s : IsMatching(s, term))

----------------------------------------------------------------------------
(* main *)

\* "AAPL"
AAPL == <<65, 65, 80, 76>>

\* ExitStatusNoArgs if sys.exit(1) were dropped (sensitivity of C9)
ExitStatusDropped == 1 - 1

ExitStatusNoArgs == 1

ExitStatusNormal == 0

NoQueryObject == [error |-> "No query provided"]

InvalidCommandObject == [error |-> "Invalid command. Use 'search <query>' or 'test'"]

\* message is the f-string "Found {len(results)} stocks using real-time data"
SearchObject(res) ==
    [success |-> TRUE,
     results |-> res,
     message |-> <<"Found ", Len(res), " stocks using real-time data">>,
     source  |-> "yfinance"]

TestUnavailableObject ==
    [success |-> FALSE,
     message |-> "yfinance module not available",
     error   |-> "ModuleNotFoundError: No module named 'yfinance'"]

\* the object the test command prints for test_data
TestObject(data) ==
    IF TruthyDict(data) /\ Get(data[1], "success", FALSE)
    THEN [success |-> TRUE, message |-> "yfinance integration is working",
          data |-> data[1]]
    ELSE [success |-> FALSE, message |-> "yfinance integration test failed",
          error |-> IF TruthyDict(data)
                    THEN Get(data[1], "error", "Unknown error")
                    ELSE "No data returned"]

\* print the object and end the process
Finish(obj, status) ==
    /\ stdout' = WriteStdout(stdout, obj)
    /\ exit_status' = <<status>>
    /\ pc' = "done"
    /\ UNCHANGED fetchVars

\* a get_stock_data(symbol) call of main or search_stocks, with the default bounds
Fetch(symbol, who) ==
    /\ CallFetch(symbol, DefaultMaxRetries, DefaultRetryDelay, who)
    /\ UNCHANGED <<stdout, exit_status>>

\* search_stocks returns res and main prints the search object
FinishSearch(res) ==
    /\ results' = res
    /\ Finish(SearchObject(res), ExitStatusNormal)

\* a get_stock_data(symbol) call of search_stocks in the given phase
SearchFetch(symbol, phase) ==
    /\ fetch_calls' = Append(fetch_calls, [phase |-> phase, symbol |-> symbol])
    /\ Fetch(symbol, phase)

MainNoArgs ==
    /\ pc = "main"
    /\ Len(argv) < 2
    /\ Finish(NoQueryObject, ExitStatusNoArgs)
    /\ UNCHANGED <<argv, YFINANCE_AVAILABLE, test_data, searchVars, counters>>

\* the search command, up to the exact-match call of search_stocks
MainSearch ==
    /\ pc = "main"
    /\ Len(argv) >= 2
    /\ argv[2] = "search" /\ Len(argv) >= 3
    /\ LET term == Normalize(argv[3])
       IN  /\ search_term' = term
           /\ IF Len(term) < 1
              THEN FinishSearch(<<>>) /\ UNCHANGED fetch_calls
              ELSE SearchFetch(term, "exact") /\ UNCHANGED results
    /\ UNCHANGED <<argv, YFINANCE_AVAILABLE, test_data, suffix_idx, popular_queue,
                   popular_idx, fetch_rets, counters>>

\* the test command, up to its get_stock_data call
MainTest ==
    /\ pc = "main"
    /\ Len(argv) >= 2
    /\ ~(argv[2] = "search" /\ Len(argv) >= 3)
    /\ argv[2] = "test"
    /\ IF ~YFINANCE_AVAILABLE
       THEN Finish(TestUnavailableObject, ExitStatusNormal)
       ELSE Fetch(AAPL, "test")
    /\ UNCHANGED <<argv, YFINANCE_AVAILABLE, test_data, searchVars, counters>>

MainInvalid ==
    /\ pc = "main"
    /\ Len(argv) >= 2
    /\ ~(argv[2] = "search" /\ Len(argv) >= 3)
    /\ argv[2] # "test"
    /\ Finish(InvalidCommandObject, ExitStatusNormal)
    /\ UNCHANGED <<argv, YFINANCE_AVAILABLE, test_data, searchVars, counters>>

\* the test command once get_stock_data returned
TestRet ==
    /\ pc = "returned" /\ caller = "test"
    /\ test_data' = ret
    /\ Finish(TestObject(ret), ExitStatusNormal)
    /\ UNCHANGED <<argv, YFINANCE_AVAILABLE, searchVars, counters>>

\* search_stocks once the exact-match call returned: the exact match, the KeyError of
\* exact_match['symbol'] caught by the except block, or the first suffix call
SearchExactRet ==
    /\ pc = "returned" /\ caller = "exact"
    /\ fetch_rets' = Append(fetch_rets, ret)
    /\ IF TruthyDict(ret)
       THEN /\ FinishSearch(IF HasKey(ret[1], "symbol") THEN <<ret[1]>> ELSE <<>>)
            /\ UNCHANGED <<suffix_idx, fetch_calls>>
       ELSE /\ suffix_idx' = 1
            /\ SearchFetch(search_term \o CommonSuffixes[1], "suffix")
            /\ UNCHANGED results
    /\ UNCHANGED <<argv, YFINANCE_AVAILABLE, test_data, search_term, popular_queue,
                   popular_idx, counters>>

\* search_stocks once a suffix call returned: the match and break, the next suffix,
\* or the end of the loop and the popular-symbol phase up to its first call
SearchSuffixRet ==
    /\ pc = "returned" /\ caller = "suffix"
    /\ fetch_rets' = Append(fetch_rets, ret)
    /\ IF TruthyDict(ret)
       THEN /\ FinishSearch(<<ret[1]>>)
            /\ UNCHANGED <<suffix_idx, popular_queue, popular_idx, fetch_calls>>
       ELSE IF suffix_idx < Len(CommonSuffixes)
       THEN /\ suffix_idx' = suffix_idx + 1
            /\ SearchFetch(search_term \o CommonSuffixes[suffix_idx + 1], "suffix")
            /\ UNCHANGED <<results, popular_queue, popular_idx>>
       ELSE LET queue == IF results = <<>> /\ Len(search_term) <= PopularMaxTermLen
                         THEN Take(MatchingSymbols(search_term), PopularLimit)
                         ELSE <<>>
            IN  IF queue = <<>>
                THEN /\ FinishSearch(results)
                     /\ UNCHANGED <<suffix_idx, popular_queue, popular_idx, fetch_calls>>
                ELSE /\ popular_queue' = queue
                     /\ popular_idx' = 1
                     /\ SearchFetch(queue[1], "popular")
                     /\ UNCHANGED <<results, suffix_idx>>
    /\ UNCHANGED <<argv, YFINANCE_AVAILABLE, test_data, search_term, counters>>

\* search_stocks once a popular-symbol call returned
SearchPopularRet ==
    /\ pc = "returned" /\ caller = "popular"
    /\ fetch_rets' = Append(fetch_rets, ret)
    /\ LET res == IF TruthyDict(ret) THEN Append(results, ret[1]) ELSE results
       IN  IF (TruthyDict(ret) /\ Len(res) >= PopularLimit)
              \/ popular_idx >= Len(popular_queue)
           THEN /\ FinishSearch(res)
                /\ UNCHANGED <<popular_idx, fetch_calls>>
           ELSE /\ results' = res
                /\ popular_idx' = popular_idx + 1
                /\ SearchFetch(popular_queue[popular_idx + 1], "popular")
    /\ UNCHANGED <<argv, YFINANCE_AVAILABLE, test_data, search_term, suffix_idx,
                   popular_queue, counters>>

----------------------------------------------------------------------------
(* The inputs and the specifications *)

\* "a" and the space
QueryAlphabet == {97, 32}

SeqsUpTo(S, n) == UNION {[1..k -> S] : k \in 0..n}

\* queries beside those over QueryAlphabet: "m", "am", "q", "meta", "\tNflx", "aaplx",
\* "\x0bm", "\x85\u3000", "\xa0q", "\xe9" (e acute), "\xdfa" (sharp s, a), "\xb5" (micro)
ExtraQueries ==
    {<<109>>, <<97, 109>>, <<113>>, <<109, 101, 116, 97>>,
     <<9, 78, 102, 108, 120>>, <<97, 97, 112, 108, 120>>,
     <<11, 109>>, <<133, 12288>>, <<160, 113>>, <<233>>, <<223, 97>>, <<181>>}

Queries == SeqsUpTo(QueryAlphabet, MaxQueryLen) \cup ExtraQueries

Commands == {"search", "test", "status"}

Argvs ==
    {<<"prog">>}
    \cup {<<"prog", c>> : c \in Commands}
    \cup {<<"prog", c, q>> : c \in Commands, q \in Queries}

NoArgs == [symbol |-> <<>>, max_retries |-> 0, retry_delay |-> 0]

InitCommon ==
    /\ YFINANCE_AVAILABLE \in BOOLEAN
    /\ stdout = <<>>
    /\ exit_status = None
    /\ search_term = <<>>
    /\ results = <<>>
    /\ suffix_idx = 0
    /\ popular_queue = <<>>
    /\ popular_idx = 0
    /\ fetch_calls = <<>>
    /\ fetch_rets = <<>>
    /\ test_data = None
    /\ attempt = 0
    /\ ret = None
    /\ events = <<>>
    /\ provider_calls = 0
    /\ sleep_calls = 0

\* the process as it is started
Init ==
    /\ InitCommon
    /\ argv \in Argvs
    /\ pc = "main"
    /\ caller = "none"
    /\ fargs = NoArgs
    /\ retry_delay = 0

Next ==
    \/ MainNoArgs
    \/ MainSearch
    \/ MainTest
    \/ MainInvalid
    \/ GsdEntry
    \/ GsdAttemptInfo
    \/ GsdAttemptRaise
    \/ TestRet
    \/ SearchExactRet
    \/ SearchSuffixRet
    \/ SearchPopularRet

Spec == Init /\ [][Next]_vars

\* the symbols a direct get_stock_data call is given: "aapl", "X.to", "Msft",
\* "\xe9" (e acute) and "stra\xdfe" (with a sharp s)
FetchSymbols ==
    {<<97, 97, 112, 108>>, <<88, 46, 116, 111>>, <<77, 115, 102, 116>>,
     <<233>>, <<115, 116, 114, 97, 223, 101>>}

\* one call get_stock_data(symbol, max_retries, retry_delay)
InitFetch ==
    /\ InitCommon
    /\ argv = <<"prog">>
    /\ pc = "call"
    /\ caller = "direct"
    /\ fargs \in [symbol : FetchSymbols,
                  max_retries : (-1)..MaxRetriesBound,
                  retry_delay : 0..MaxDelay]
    /\ retry_delay = fargs.retry_delay

NextFetch ==
    \/ GsdEntry
    \/ GsdAttemptInfo
    \/ GsdAttemptRaise

SpecFetch == InitFetch /\ [][NextFetch]_vars

----------------------------------------------------------------------------
(* Vocabulary of the properties *)

IsSearch == Len(argv) >= 3 /\ argv[2] = "search"

IsTest == Len(argv) >= 2 /\ argv[2] = "test"

\* a returned value that is a populated Quote
IsQuoteRet(r) == r # None /\ "symbol" \in DOMAIN r[1] /\ "price" \in DOMAIN r[1]

IsCall(e) == e.kind = "call"

IsSleep(e) == e.kind = "sleep"

\* the provider call raised an exception with a rate-limit signature
RaisedRateLimit(e) ==
    IsCall(e) /\ e.outcome.type = "raise" /\ e.outcome.msg \in RateLimitMessages

\* the info of the call has a price that is present, not None and not zero
HasPrice(e) ==
    /\ IsCall(e) /\ e.outcome.type = "info"
    /\ PriceKey \in DOMAIN e.outcome.info
    /\ e.outcome.info[PriceKey] # None
    /\ e.outcome.info[PriceKey][1] # 0

\* the info of the call makes the computation of the change raise a TypeError
HasNoneClose(e) ==
    /\ HasPrice(e)
    /\ CloseKey \in DOMAIN e.outcome.info
    /\ e.outcome.info[CloseKey] = None

\* an exception without rate-limit signature was raised in this iteration
RaisedOther(e) ==
    \/ IsCall(e) /\ e.outcome.type = "raise" /\ e.outcome.msg \in OtherMessages
    \/ HasNoneClose(e)

SleepDelays == [i \in 1..Len(SelectSeq(events, IsSleep)) |-> SelectSeq(events, IsSleep)[i].delay]

AllRateLimited == \A i \in 1..Len(events) : IsCall(events[i]) => RaisedRateLimit(events[i])

\* the upper-case spelling of the symbols of FetchSymbols: "AAPL", "X.TO", "MSFT",
\* "\xc9" (E acute) and "STRASSE"
UpperSpelling(symbol) ==
    CASE symbol = <<97, 97, 112, 108>> -> <<65, 65, 80, 76>>
      [] symbol = <<88, 46, 116, 111>> -> <<88, 46, 84, 79>>
      [] symbol = <<77, 115, 102, 116>> -> <<77, 83, 70, 84>>
      [] symbol = <<233>> -> <<201>>
      [] symbol = <<115, 116, 114, 97, 223, 101>> -> <<83, 84, 82, 65, 83, 83, 69>>

----------------------------------------------------------------------------
(* C1: when the library is available, retry_delay > 0 and every provider call of a
   get_stock_data(symbol, max_retries, retry_delay) raised a rate-limit error, the
   call made max_retries + 1 provider calls, slept before every call but the first
   and at no other time, every sleep was twice as long as (so strictly longer than)
   the one before, and None was returned. *)
C1_RateLimitRetries ==
    (pc = "returned" /\ YFINANCE_AVAILABLE /\ fargs.retry_delay > 0 /\ AllRateLimited)
    => /\ Len(SelectSeq(events, IsCall)) = fargs.max_retries + 1
       /\ \A i \in 1..Len(events) :
            /\ IsCall(events[i]) => (i = 1 \/ IsSleep(events[i - 1]))
            /\ IsSleep(events[i]) =>
                 i > 1 /\ i < Len(events) /\ IsCall(events[i - 1]) /\ IsCall(events[i + 1])
       /\ \A k \in 1..(Len(SleepDelays) - 1) :
            SleepDelays[k + 1] > SleepDelays[k] /\ SleepDelays[k + 1] = 2 * SleepDelays[k]
       /\ ret = None

\* three retries of a call with max_retries = 3 and retry_delay = 2: sleeps 4, 8, 16
C1_Witness ==
    /\ pc = "returned" /\ YFINANCE_AVAILABLE /\ AllRateLimited
    /\ fargs.max_retries = 3 /\ fargs.retry_delay = 2
    /\ Len(SelectSeq(events, IsCall)) = 4
    /\ SleepDelays = <<4, 8, 16>>
    /\ ret = None

(* C2: an exception without rate-limit signature ends get_stock_data at once: the
   provider call of that iteration is the last event of the call, whatever the
   attempt index, and None is returned. *)
C2_OtherErrorEndsFetch ==
    \A i \in 1..Len(events) :
        RaisedOther(events[i]) => (i = Len(events) /\ pc = "returned" /\ ret = None)

\* another exception at the third attempt, after two rate-limit retries
C2_Witness ==
    /\ Len(events) = 5
    /\ RaisedRateLimit(events[1]) /\ RaisedRateLimit(events[3])
    /\ events[5].outcome.type = "raise" /\ events[5].outcome.msg \in OtherMessages
    /\ pc = "returned" /\ ret = None

(* C4: with the library available get_stock_data returns None or a Quote; a Quote
   only when the last provider call returned an info whose regularMarketPrice is
   present and non-zero, the Quote's price being that price and its symbol the
   upper-cased argument; and None when there was no provider call, when the last
   call raised, when its info is empty or has no or a zero price, and when the
   computation on the info raised. *)
C4_QuoteOnlyForNonZeroPrice ==
    (pc = "returned" /\ YFINANCE_AVAILABLE)
    => LET n    == Len(events)
           last == events[n]
       IN  /\ ret = None \/ IsQuoteRet(ret)
           /\ IsQuoteRet(ret) =>
                /\ n > 0 /\ HasPrice(last)
                /\ ret[1].price = last.outcome.info[PriceKey][1]
                /\ ret[1].price # 0
                /\ ret[1].symbol = UpperSpelling(fargs.symbol)
           /\ (n = 0 \/ ~HasPrice(last) \/ HasNoneClose(last)) => ret = None

\* a Quote with symbol "X.TO" for "X.to" from an info with price 5 and previous close 4, after a retry
C4_Witness ==
    /\ pc = "returned" /\ YFINANCE_AVAILABLE
    /\ fargs.symbol = <<88, 46, 116, 111>>
    /\ Len(events) = 3 /\ HasPrice(events[3])
    /\ ret = <<[symbol |-> <<88, 46, 84, 79>>, price |-> 5, change |-> 1,
                changePercent |-> [num |-> 100, den |-> 4]]>>

----------------------------------------------------------------------------
(* C3: exactly one object is on standard output when the process has ended, for
   every invocation and every provider behaviour, and none before: get_stock_data
   and search_stocks write nothing to it. A process that has not ended can take a
   step. *)
C3_OneObjectOnStdout ==
    /\ pc = "done" => Len(stdout) = 1 /\ exit_status # None
    /\ pc # "done" => Len(stdout) = 0 /\ exit_status = None /\ ENABLED Next

\* a search that went through six fetches, with retries, and printed its object
C3_Witness ==
    /\ pc = "done" /\ IsSearch /\ YFINANCE_AVAILABLE
    /\ Len(fetch_rets) = 6 /\ sleep_calls >= 2 /\ provider_calls >= 8
    /\ Len(stdout) = 1 /\ stdout[1].source = "yfinance"

(* C5: when YFINANCE_AVAILABLE is false there is no provider call and no sleep, every
   get_stock_data call returns the unavailable marker in its first step, and the
   test command prints its failure object without calling get_stock_data. *)
C5_UnavailableShortCircuits ==
    ~YFINANCE_AVAILABLE
    => /\ provider_calls = 0 /\ sleep_calls = 0 /\ events = <<>>
       /\ pc \in {"main", "call", "returned", "done"}
       /\ pc = "returned" =>
            /\ ret # None
            /\ DOMAIN ret[1] = {"success", "error", "fallback"}
            /\ ret[1].success = FALSE /\ ret[1].fallback = TRUE
       /\ IsTest =>
            /\ caller = "none" /\ pc \in {"main", "done"}
            /\ pc = "done" => stdout[1].success = FALSE /\ "error" \in DOMAIN stdout[1]

\* the exact-match call of a search returned the marker
C5_Witness ==
    /\ ~YFINANCE_AVAILABLE /\ IsSearch
    /\ pc = "returned" /\ caller = "exact"
    /\ ret = <<[success |-> FALSE, error |-> "yfinance module not available",
                fallback |-> TRUE]>>

(* C6: the test command prints {success: true, data: <Quote>} exactly when
   get_stock_data("AAPL") returned a populated Quote. The code prints the failure
   object for a Quote as well: a Quote has no "success" key. *)
C6_TestReportsFetchSuccess ==
    (pc = "done" /\ IsTest)
    => /\ stdout[1].success = IsQuoteRet(test_data)
       /\ IsQuoteRet(test_data) => "data" \in DOMAIN stdout[1] /\ stdout[1].data = test_data[1]

(* C7: search_stocks fetches the normalised query first; a suffixed symbol (.TO,
   .V, .AX, in that order) only while no earlier fetch gave a Quote; popular symbols
   only after the exact and the three suffix fetches gave no Quote and for a term of
   at most 4 characters, at most 2 of them, the matching symbols in list order; and
   after an exact match nothing else is fetched and the result is that Quote. *)
C7_FetchOrder ==
    LET n    == Len(fetch_calls)
        term == fetch_calls[1].symbol
        \* .TO, .V, .AX
        sfx  == << <<46, 84, 79>>, <<46, 86>>, <<46, 65, 88>> >>
    IN  n >= 1
        => /\ IsSearch /\ n <= 6 /\ Len(fetch_rets) \in {n - 1, n}
           /\ fetch_calls[1].phase = "exact" /\ term = Strip(Upper(argv[3]))
           /\ \A i \in 2..n :
                /\ fetch_calls[i].phase \in {"suffix", "popular"}
                /\ fetch_calls[i].phase = "suffix" =>
                     /\ i <= 4 /\ fetch_calls[i].symbol = term \o sfx[i - 1]
                     /\ \A j \in 1..(i - 1) : ~IsQuoteRet(fetch_rets[j])
                /\ fetch_calls[i].phase = "popular" =>
                     /\ i >= 5 /\ Len(term) <= 4
                     /\ \A j \in 2..4 : fetch_calls[j].phase = "suffix"
                     /\ \A j \in 1..4 : ~IsQuoteRet(fetch_rets[j])
                     /\ Len(MatchingSymbols(term)) >= i - 4
                     /\ fetch_calls[i].symbol = MatchingSymbols(term)[i - 4]
           /\ (Len(fetch_rets) >= 1 /\ IsQuoteRet(fetch_rets[1])) =>
                n = 1 /\ pc = "done" /\ results = <<fetch_rets[1][1]>>

\* the query "\x0bm": M, M.TO, M.V, M.AX, then MSFT and AMZN, META not being fetched
C7_Witness ==
    /\ pc = "done" /\ IsSearch /\ argv[3] = <<11, 109>>
    /\ Len(fetch_calls) = 6
    /\ fetch_calls[1].symbol = <<77>>
    /\ fetch_calls[2].symbol = <<77, 46, 84, 79>>
    /\ fetch_calls[4].symbol = <<77, 46, 65, 88>>
    /\ fetch_calls[5].symbol = <<77, 83, 70, 84>>
    /\ fetch_calls[6].symbol = <<65, 77, 90, 78>>

\* the fetches of the given phase that returned a Quote
Hits(phase) ==
    {i \in 1..Len(fetch_rets) : fetch_calls[i].phase = phase /\ IsQuoteRet(fetch_rets[i])}

(* C8: the results of search_stocks are the Quotes its fetches returned; at most 1
   of them comes from the suffix phase and at most 2 from the popular-symbol phase,
   so at most 3 are not the exact match. *)
C8_ResultBound ==
    /\ Len(results) =
         Cardinality(Hits("exact")) + Cardinality(Hits("suffix")) + Cardinality(Hits("popular"))
    /\ Cardinality(Hits("suffix")) <= 1
    /\ Cardinality(Hits("popular")) <= 2
    /\ Len(results) - Cardinality(Hits("exact")) <= 3

\* two Quotes from the popular-symbol phase
C8_Witness ==
    /\ pc = "done" /\ IsSearch
    /\ Cardinality(Hits("popular")) = 2 /\ Len(results) = 2
    /\ stdout[1].results = results

(* C9: the process ends with status 1 exactly when it was started without arguments,
   and with status 0 otherwise whatever the provider did; an unknown command and a
   search without query print an error object. *)
C9_ExitStatus ==
    pc = "done"
    => /\ exit_status \in {<<0>>, <<1>>}
       /\ exit_status = <<1>> <=> Len(argv) < 2
       /\ (Len(argv) >= 2 /\ ~IsSearch /\ ~IsTest) => DOMAIN stdout[1] = {"error"}

\* started without arguments: the error object and status 1
C9_Witness ==
    /\ pc = "done" /\ Len(argv) < 2
    /\ exit_status = <<1>>
    /\ stdout = <<[error |-> "No query provided"]>>

(* C10: every element of the results of search_stocks is a populated Quote with a
   non-zero price, never the unavailable marker; when the library is unavailable the
   search returns the empty sequence and main prints it. *)
C10_ResultsAreQuotes ==
    /\ \A i \in 1..Len(results) :
         /\ {"symbol", "price"} \subseteq DOMAIN results[i]
         /\ "fallback" \notin DOMAIN results[i]
         /\ results[i].price # 0
    /\ (pc = "done" /\ IsSearch) => stdout[1].results = results
    /\ (pc = "done" /\ IsSearch /\ ~YFINANCE_AVAILABLE) =>
         results = <<>> /\ stdout[1].success = TRUE /\ exit_status = <<0>>

\* the search for "am" (97, 109) without the library: one call, the marker, no result
C10_Witness ==
    /\ pc = "done" /\ IsSearch /\ ~YFINANCE_AVAILABLE
    /\ argv[3] = <<97, 109>>
    /\ Len(fetch_calls) = 1
    /\ fetch_rets = <<<<[success |-> FALSE, error |-> "yfinance module not available",
                         fallback |-> TRUE]>>>>
    /\ results = <<>>

====
